---- MODULE Spec2Model ----
(***************************************************************************)
(* Model of the trap subsystem of os-dev-udemy-wsl: src/kernel/trap.c,      *)
(* src/kernel/trap.h and src/kernel/main.c.                                 *)
(*                                                                          *)
(* TLC's integers are 32 bits wide, so a uint64_t / int64_t is a sequence   *)
(* of four 16-bit limbs, least significant first, and a uint32_t a sequence *)
(* of two.  Shifts and casts are computed on that representation.           *)
(***************************************************************************)
EXTENDS Integers, Sequences, FiniteSets, TLC

VARIABLES
    link,         \* link-time layout: addresses of the trampolines and of vectors[]
    vectors,      \* static struct IdtEntry vectors[256]
    idt_pointer,  \* static struct IdtPtr idt_pointer
    loads,        \* one record per load_idt() call: the pointer passed and the table then
    pc,           \* position of the boot thread
    ip,           \* statement of init_idt() about to run (1..NumStatements)
    rflags_if,    \* the CPU's interrupt-enable flag
    stack,        \* active trap invocations, innermost last
    enc           \* one isolated init_idt_entry() call: slot, arguments, done

vars == <<link, vectors, idt_pointer, loads, pc, ip, rflags_if, stack, enc>>

---------------------------------------------------------------------------
(* Fixed-width arithmetic *)

W16 == 65536

Pow2(n) == IF n = 0 THEN 1 ELSE 2 ^ n

\* A 64-bit value from its four 16-bit limbs.
U64(l0, l1, l2, l3) == <<l0, l1, l2, l3>>

\* A small non-negative constant as a 64-bit value.
I64(n) == U64(n % W16, n \div W16, 0, 0)

Limb(a, i) == IF i \in 1..Len(a) THEN a[i] ELSE 0

\* addr >> n on a 64-bit value, 0 <= n < 64.
Shr(a, n) ==
    LET q == n \div 16
        r == n % 16
    IN  [i \in 1..4 |->
            (Limb(a, i + q) \div Pow2(r))
          + (Limb(a, i + q + 1) % Pow2(r)) * Pow2(16 - r) ]

\* (uint16_t)x and (uint32_t)x on a 64-bit value.
CastU16(a) == a[1]
CastU32(a) == <<a[1], a[2]>>

RECURSIVE AddCarry(_, _, _)
AddCarry(a, i, c) ==
    IF i > Len(a) THEN <<>>
    ELSE <<(a[i] + c) % W16>> \o AddCarry(a, i + 1, (a[i] + c) \div W16)

\* a + n modulo 2^64, for 0 <= n < 2^16.
AddSmall(a, n) == AddCarry(a, 1, n)

---------------------------------------------------------------------------
(* struct IdtEntry and init_idt_entry *)

KernelCS == 8

ZeroEntry ==
    [low |-> 0, selector |-> 0, res0 |-> 0, attr |-> 0, mid |-> 0,
     high |-> <<0, 0>>, res1 |-> <<0, 0>>]

\* sizeof(struct IdtEntry): the widths of its seven fields, which are
\* naturally aligned, so the compiler inserts no padding.
SizeofIdtEntry == 2 + 2 + 1 + 1 + 2 + 4 + 4

\* A plausible slip: the middle field takes the wrong 16 bits.
init_idt_entry_midshift(entry, addr, attribute) ==
    [entry EXCEPT !.low = CastU16(addr),
                  !.selector = KernelCS,
                  !.attr = attribute,
                  !.mid = CastU16(Shr(addr, 32)),
                  !.high = CastU32(Shr(addr, 32))]

\* A plausible slip: the low field is accumulated instead of assigned.
init_idt_entry_accumulate(entry, addr, attribute) ==
    [entry EXCEPT !.low = (entry.low + CastU16(addr)) % W16,
                  !.selector = KernelCS,
                  !.attr = attribute,
                  !.mid = CastU16(Shr(addr, 16)),
                  !.high = CastU32(Shr(addr, 32))]

\* The slot after init_idt_entry(entry, addr, attribute).  res0 and res1 are
\* not assigned: they keep what the slot held.
init_idt_entry(entry, addr, attribute) ==
    [entry EXCEPT !.low = CastU16(addr),
                  !.selector = KernelCS,
                  !.attr = attribute,
                  !.mid = CastU16(Shr(addr, 16)),
                  !.high = CastU32(Shr(addr, 32))]

---------------------------------------------------------------------------
(* The static objects and the link-time layout *)

NumVectors == 256

GateAttr == 142

Slots == 0..(NumVectors - 1)

\* static storage is zero-initialised before KMain runs
ZeroTable == [v \in Slots |-> ZeroEntry]

ZeroPointer == [limit |-> 0, addr |-> I64(0)]

\* Where the linker may have put the first trampoline, vector0.
TextBases == { U64(64, 32, 0, 0), U64(65520, 65535, 32768, 65535) }

\* Distance between consecutive trampolines in the text section.
Strides == { 8, 16 }

\* Where the linker may have put vectors[].
TableAddrs == { U64(4096, 32, 0, 0), U64(0, 0, 32768, 65535) }

Layouts == [text : TextBases, stride : Strides, table : TableAddrs]

\* The trampolines the header declares: vector0 .. vector39, with gaps.
Trampolines == (0..8) \cup (10..14) \cup (16..19) \cup {32, 39}

\* (uint64_t)vector<n>
TrampolineAddr(n) == AddSmall(link.text, link.stride * n)

---------------------------------------------------------------------------
(* init_idt *)

\* The slot index of each init_idt_entry call, in source order.
InitSlots ==
    <<0, 1, 2, 3, 4, 5, 6, 7, 8, 10, 11, 12, 13, 14, 16, 17, 18, 19, 32, 39>>

\* The trampoline named by each init_idt_entry call, in source order.
InitHandlers ==
    <<0, 1, 2, 3, 4, 5, 6, 7, 8, 10, 11, 12, 13, 14, 16, 17, 18, 19, 32, 39>>

\* A plausible slip: the exception slots are filled contiguously, so the
\* reserved slots 9 and 15 are not skipped.
InitEntryArgs_contiguous(k) ==
    [slot |-> IF k <= 18 THEN k - 1 ELSE InitSlots[k],
     handler |-> InitHandlers[k], attr |-> GateAttr]

\* A plausible slip: trap gates (type 0xF) instead of interrupt gates (0xE).
InitEntryArgs_trapgate(k) ==
    [slot |-> InitSlots[k], handler |-> InitHandlers[k], attr |-> 143]

\* The arguments of the k-th init_idt_entry call of init_idt.
InitEntryArgs(k) ==
    [slot |-> InitSlots[k], handler |-> InitHandlers[k], attr |-> GateAttr]

NumEntryCalls == Len(InitSlots)

\* A plausible slip: load_idt is called first, before the table is built.
InitStatement_loadfirst(i) ==
    IF i = 1 THEN [op |-> "load", k |-> 0]
    ELSE IF i <= NumEntryCalls + 1 THEN [op |-> "entry", k |-> i - 1]
    ELSE IF i = NumEntryCalls + 2 THEN [op |-> "limit", k |-> 0]
    ELSE [op |-> "addr", k |-> 0]

\* A plausible slip: load_idt is called before the pointer's base is set.
InitStatement_loadearly(i) ==
    IF i <= NumEntryCalls THEN [op |-> "entry", k |-> i]
    ELSE IF i = NumEntryCalls + 1 THEN [op |-> "limit", k |-> 0]
    ELSE IF i = NumEntryCalls + 2 THEN [op |-> "load", k |-> 0]
    ELSE [op |-> "addr", k |-> 0]

\* The i-th statement of init_idt, in source order.
InitStatement(i) ==
    IF i <= NumEntryCalls THEN [op |-> "entry", k |-> i]
    ELSE IF i = NumEntryCalls + 1 THEN [op |-> "limit", k |-> 0]
    ELSE IF i = NumEntryCalls + 2 THEN [op |-> "addr", k |-> 0]
    ELSE [op |-> "load", k |-> 0]

NumStatements == NumEntryCalls + 3

\* sizeof(vectors)
SizeofVectors == NumVectors * SizeofIdtEntry

\* A plausible slip: the limit is the size, not the size minus one.
PointerLimit_size == SizeofVectors % W16

\* idt_pointer.limit = sizeof(vectors)-1, stored in a uint16_t
PointerLimit == (SizeofVectors - 1) % W16

\* load_idt(ptr): the CPU's table register takes the two fields of *ptr.
\* The table contents at that moment are kept beside them.
load_idt(ptr) ==
    Append(loads, [limit |-> ptr.limit, addr |-> ptr.addr, table |-> vectors])

\* One statement of init_idt; after the last one init_idt returns.
InitIdtStep ==
    /\ pc = "init_idt"
    /\ LET s == InitStatement(ip)
           a == InitEntryArgs(s.k)
       IN  /\ vectors' =
                IF s.op = "entry"
                THEN [vectors EXCEPT ![a.slot] =
                        init_idt_entry(vectors[a.slot],
                                       TrampolineAddr(a.handler), a.attr)]
                ELSE vectors
           /\ idt_pointer' =
                IF s.op = "limit"
                THEN [idt_pointer EXCEPT !.limit = PointerLimit]
                ELSE IF s.op = "addr"
                THEN [idt_pointer EXCEPT !.addr = link.table]
                ELSE idt_pointer
           /\ loads' = IF s.op = "load" THEN load_idt(idt_pointer) ELSE loads
    /\ IF ip < NumStatements
       THEN ip' = ip + 1 /\ pc' = pc
       ELSE ip' = 0 /\ pc' = "init_idt_ret"
    /\ UNCHANGED <<link, rflags_if, stack, enc>>

---------------------------------------------------------------------------
(* handler *)

NoIsr == 0 - 1

\* x & (1 << bit) on a non-negative value
AndBit(x, bit) == ((x \div Pow2(bit)) % 2) * Pow2(bit)

\* A plausible slip: the default case falls out of the switch.
handler_default_returns(tf, port) ==
    IF tf.trapno = I64(32)
    THEN [tf |-> tf, eoi |-> 1, reads |-> 0, isr |-> NoIsr, returns |-> TRUE]
    ELSE IF tf.trapno = I64(39)
    THEN [tf |-> tf, eoi |-> IF AndBit(port, 7) # 0 THEN 1 ELSE 0,
          reads |-> 1, isr |-> port, returns |-> TRUE]
    ELSE [tf |-> tf, eoi |-> 0, reads |-> 0, isr |-> NoIsr, returns |-> TRUE]

\* A plausible slip: the timer case falls through into the spurious check.
handler_fallthrough(tf, port) ==
    IF tf.trapno = I64(32)
    THEN [tf |-> tf, eoi |-> 1 + (IF AndBit(port, 7) # 0 THEN 1 ELSE 0),
          reads |-> 1, isr |-> port, returns |-> TRUE]
    ELSE IF tf.trapno = I64(39)
    THEN [tf |-> tf, eoi |-> IF AndBit(port, 7) # 0 THEN 1 ELSE 0,
          reads |-> 1, isr |-> port, returns |-> TRUE]
    ELSE [tf |-> tf, eoi |-> 0, reads |-> 0, isr |-> NoIsr, returns |-> FALSE]

\* A plausible slip: the mask tests bit 6.
handler_wrongbit(tf, port) ==
    IF tf.trapno = I64(32)
    THEN [tf |-> tf, eoi |-> 1, reads |-> 0, isr |-> NoIsr, returns |-> TRUE]
    ELSE IF tf.trapno = I64(39)
    THEN [tf |-> tf, eoi |-> IF AndBit(port, 6) # 0 THEN 1 ELSE 0,
          reads |-> 1, isr |-> port, returns |-> TRUE]
    ELSE [tf |-> tf, eoi |-> 0, reads |-> 0, isr |-> NoIsr, returns |-> FALSE]

\* handler(tf), with `port` the byte the controller gives to a read_isr()
\* call.  The result: the trap record afterwards, the number of eoi() and
\* read_isr() calls made, the byte read, and whether the function returns
\* (the default case is while (1) { }).
handler(tf, port) ==
    IF tf.trapno = I64(32)
    THEN [tf |-> tf, eoi |-> 1, reads |-> 0, isr |-> NoIsr, returns |-> TRUE]
    ELSE IF tf.trapno = I64(39)
    THEN LET isr_value == port
         IN  [tf |-> tf, eoi |-> IF AndBit(isr_value, 7) # 0 THEN 1 ELSE 0,
              reads |-> 1, isr |-> isr_value, returns |-> TRUE]
    ELSE [tf |-> tf, eoi |-> 0, reads |-> 0, isr |-> NoIsr, returns |-> FALSE]

\* The bytes read_isr() can return.
IsrBytes == 0..255

\* A handler invocation that has just been entered with trap record tf.
NewFrame(tf, saved_if) ==
    [tf |-> tf, tf0 |-> tf, state |-> "running", eoi |-> 0, reads |-> 0,
     isr |-> NoIsr, saved_if |-> saved_if]

TopOf(s) == s[Len(s)]

Top == TopOf(stack)

\* The controller's byte matters only to an invocation that reads it: one
\* that makes no read_isr() call is run once, not once per byte.
ReadablePorts(tf) == IF handler(tf, 0).reads = 0 THEN {0} ELSE IsrBytes

\* The innermost invocation runs handler(): it either reaches its closing
\* brace or enters the endless loop.
HandlerStep ==
    /\ stack # <<>>
    /\ Top.state = "running"
    /\ \E port \in ReadablePorts(Top.tf) :
         LET r == handler(Top.tf, port)
         IN  stack' = [stack EXCEPT ![Len(stack)] =
                 [@ EXCEPT !.tf = r.tf, !.eoi = r.eoi, !.reads = r.reads,
                           !.isr = r.isr,
                           !.state = IF r.returns THEN "returned" ELSE "halted"]]
    /\ UNCHANGED <<link, vectors, idt_pointer, loads, pc, ip, rflags_if, enc>>

\* handler() has returned: its caller pops the trap record and resumes what
\* was interrupted, with the interrupt flag it had.
HandlerReturn ==
    /\ stack # <<>>
    /\ Top.state = "returned"
    /\ stack' = SubSeq(stack, 1, Len(stack) - 1)
    /\ rflags_if' = Top.saved_if
    /\ UNCHANGED <<link, vectors, idt_pointer, loads, pc, ip, enc>>

---------------------------------------------------------------------------
(* KMain and the boot path *)

\* KMain calls init_idt().
KMainCall ==
    /\ pc = "KMain"
    /\ pc' = "init_idt"
    /\ ip' = 1
    /\ UNCHANGED <<link, vectors, idt_pointer, loads, rflags_if, stack, enc>>

\* init_idt() was KMain's only statement: KMain returns to its caller.
KMainReturn ==
    /\ pc = "init_idt_ret"
    /\ pc' = "KMain_ret"
    /\ UNCHANGED <<link, vectors, idt_pointer, loads, ip, rflags_if, stack, enc>>

\* The boot code enables interrupts once initialisation is over and waits.
EnableInterrupts ==
    /\ pc = "KMain_ret"
    /\ pc' = "idle"
    /\ rflags_if' = TRUE
    /\ UNCHANGED <<link, vectors, idt_pointer, loads, ip, stack, enc>>

---------------------------------------------------------------------------
(* Trap delivery: the CPU and the entry trampolines *)

MaxNest == 2

\* The handler address a gate holds.
GateTarget(gate) == U64(gate.low, gate.mid, gate.high[1], gate.high[2])

GatePresent(gate) == AndBit(gate.attr, 7) # 0

\* Gate type 0xE: an interrupt gate, which clears the interrupt flag on entry.
IsInterruptGate(gate) == gate.attr % 16 = 14

\* The CPU takes a trap on vector v through the installed table; the
\* trampoline the gate points at pushes its own number as the trap number
\* and calls handler().
Trap(v) ==
    /\ loads # <<>>
    /\ rflags_if
    /\ Len(stack) < MaxNest
    /\ LET idtr == loads[Len(loads)]
           gate == vectors[v]
       IN  /\ idtr.addr = link.table
           /\ (v + 1) * SizeofIdtEntry - 1 <= idtr.limit
           /\ GatePresent(gate)
           /\ \E t \in Trampolines :
                /\ TrampolineAddr(t) = GateTarget(gate)
                /\ stack' = Append(stack,
                     NewFrame([trapno |-> I64(t), errorcode |-> I64(0)], rflags_if))
           /\ rflags_if' = IF IsInterruptGate(gate) THEN FALSE ELSE rflags_if
    /\ UNCHANGED <<link, vectors, idt_pointer, loads, pc, ip, enc>>

---------------------------------------------------------------------------
(* Direct calls, as a caller of the two public functions may make them *)

MaxInitCalls == 2

\* Trap numbers a caller may put in the record: the declared vectors, their
\* neighbours, and values that differ from 32 and 39 only above bit 15,
\* above bit 31, or in sign.
TrapNos ==
    { I64(t) : t \in Trampolines } \cup
    { I64(9), I64(31), I64(33), I64(38), I64(40), I64(255), I64(256),
      U64(32, 1, 0, 0), U64(39, 1, 0, 0), U64(32, 0, 1, 0), U64(39, 0, 0, 1),
      U64(65535, 65535, 65535, 65535), U64(65504, 65535, 65535, 65535),
      U64(65497, 65535, 65535, 65535), U64(0, 0, 0, 32768) }

ErrorCodes == { I64(0), I64(13) }

AtCaller == pc \in {"caller", "init_idt_ret"} /\ stack = <<>>

\* The caller calls init_idt().
CallInitIdt ==
    /\ AtCaller
    /\ Len(loads) < MaxInitCalls
    /\ pc' = "init_idt"
    /\ ip' = 1
    /\ UNCHANGED <<link, vectors, idt_pointer, loads, rflags_if, stack, enc>>

\* The caller calls handler(&tf).
CallHandler(no, ec) ==
    /\ AtCaller
    /\ stack' = Append(stack, NewFrame([trapno |-> no, errorcode |-> ec], rflags_if))
    /\ UNCHANGED <<link, vectors, idt_pointer, loads, pc, ip, rflags_if, enc>>

---------------------------------------------------------------------------
(* One init_idt_entry call on an arbitrary slot *)

EncLimbs == { 0, 1, 4660, 32768, 65535 }

EncAddrs == { U64(a, b, c, d) : a \in EncLimbs, b \in EncLimbs, c \in EncLimbs, d \in EncLimbs }

EncAttrs == { 0, 1, GateAttr, 143, 255 }

\* What the slot may hold before the call: zeroes, all ones, an earlier gate.
EncPriors ==
    { ZeroEntry,
      [low |-> 65535, selector |-> 65535, res0 |-> 255, attr |-> 255,
       mid |-> 65535, high |-> <<65535, 65535>>, res1 |-> <<65535, 65535>>],
      [low |-> 64, selector |-> KernelCS, res0 |-> 0, attr |-> GateAttr,
       mid |-> 32, high |-> <<0, 0>>, res1 |-> <<0, 0>>] }

NoEnc == [entry |-> ZeroEntry, prior |-> ZeroEntry, addr |-> I64(0), attr |-> 0, done |-> FALSE]

EncodeCall ==
    /\ pc = "encode"
    /\ ~enc.done
    /\ enc' = [enc EXCEPT !.entry = init_idt_entry(enc.entry, enc.addr, enc.attr),
                          !.done = TRUE]
    /\ UNCHANGED <<link, vectors, idt_pointer, loads, pc, ip, rflags_if, stack>>

---------------------------------------------------------------------------
(* Specifications *)

Boot(start) ==
    /\ link \in Layouts
    /\ vectors = ZeroTable
    /\ idt_pointer = ZeroPointer
    /\ loads = <<>>
    /\ pc = start
    /\ ip = 0
    /\ rflags_if = FALSE
    /\ stack = <<>>

\* The kernel: boot, KMain, then traps through the installed table.
Init == Boot("KMain") /\ enc = NoEnc

Next ==
    \/ KMainCall
    \/ InitIdtStep
    \/ KMainReturn
    \/ EnableInterrupts
    \/ \E v \in Slots : Trap(v)
    \/ HandlerStep
    \/ HandlerReturn

Spec == Init /\ [][Next]_vars

\* A caller that calls init_idt() and handler() directly, one call at a time.
InitUnit == Boot("caller") /\ enc = NoEnc

NextUnit ==
    \/ CallInitIdt
    \/ InitIdtStep
    \/ \E no \in TrapNos, ec \in ErrorCodes : CallHandler(no, ec)
    \/ HandlerStep
    \/ HandlerReturn

SpecUnit == InitUnit /\ [][NextUnit]_vars

\* init_idt_entry alone, on every slot content, address and attribute drawn.
InitEncode ==
    /\ Boot("encode")
    /\ link = [text |-> U64(64, 32, 0, 0), stride |-> 16, table |-> U64(4096, 32, 0, 0)]
    /\ \E e \in EncPriors, a \in EncAddrs, b \in EncAttrs :
         enc = [entry |-> e, prior |-> e, addr |-> a, attr |-> b, done |-> FALSE]

NextEncode == EncodeCall

SpecEncode == InitEncode /\ [][NextEncode]_vars

---------------------------------------------------------------------------
(* Properties *)

InitIdtDone == pc \in {"init_idt_ret", "KMain_ret", "idle"}

Frames == { stack[i] : i \in 1..Len(stack) }

Finished(f) == f.state # "running"

\* C1: for every address a and attribute b, the descriptor init_idt_entry
\* writes has low = a mod 2^16, mid = (a div 2^16) mod 2^16 and
\* high = a div 2^32, so that low | mid | high put together again is a; its
\* selector is 8 and its attribute is b.
C1_EncoderSplitsAddress ==
    enc.done =>
        /\ enc.entry.low = enc.addr[1]
        /\ enc.entry.mid = enc.addr[2]
        /\ enc.entry.high = <<enc.addr[3], enc.addr[4]>>
        /\ <<enc.entry.low, enc.entry.mid>> \o enc.entry.high = enc.addr
        /\ enc.entry.selector = 8
        /\ enc.entry.attr = enc.attr

C1_Witness ==
    /\ enc.done
    /\ enc.addr = U64(4660, 65535, 32768, 1)
    /\ enc.attr = 143
    /\ enc.entry.mid = 65535
    /\ enc.entry.high = <<32768, 1>>

\* C2: whatever the slot held before, after init_idt_entry its res0 and
\* res1 fields are both 0.
C2_EncoderZeroesReserved ==
    enc.done => enc.entry.res0 = 0 /\ enc.entry.res1 = <<0, 0>>

\* The descriptor C3 expects in a populated slot v.
ExpectedGate(v) ==
    LET a == TrampolineAddr(v)
    IN  [low |-> a[1], selector |-> 8, res0 |-> 0, attr |-> 142, mid |-> a[2],
         high |-> <<a[3], a[4]>>, res1 |-> <<0, 0>>]

\* C3: after init_idt() completes from the boot state, each slot v of
\* {0..8, 10..14, 16..19, 32, 39} holds the encoding of the address of
\* trampoline vector<v> with attribute 0x8E and selector 8, and every other
\* slot of 0..255 is all-zero.
C3_TablePopulated ==
    InitIdtDone =>
        \A v \in 0..255 :
            IF v \in {0, 1, 2, 3, 4, 5, 6, 7, 8, 10, 11, 12, 13, 14,
                      16, 17, 18, 19, 32, 39}
            THEN vectors[v] = ExpectedGate(v)
            ELSE vectors[v] = ZeroEntry

C3_Witness ==
    /\ pc = "KMain_ret"
    /\ vectors[39].attr = 142
    /\ vectors[39].low = 296
    /\ vectors[39].mid = 0
    /\ vectors[39].high = <<32769, 65535>>
    /\ vectors[9] = ZeroEntry

\* C4: after init_idt() completes, the Table Pointer's limit is 4095 and its
\* base is the address of the table, and the pointer load_idt was given
\* carried exactly these two values.
C4_PointerDescribesTable ==
    InitIdtDone =>
        /\ idt_pointer.limit = 4095
        /\ idt_pointer.addr = link.table
        /\ Len(loads) = 1
        /\ loads[1].limit = 4095
        /\ loads[1].addr = link.table

C4_Witness ==
    /\ pc = "init_idt_ret"
    /\ Len(loads) = 1
    /\ loads[1].addr = U64(0, 0, 32768, 65535)

\* C5: given a trap record whose trap number is 32, handler() calls eoi()
\* exactly once, does not call read_isr(), changes neither the trap record
\* nor the table nor the pointer, and returns.
C5_TimerAcknowledgedOnce ==
    [][ ( /\ stack # <<>>
          /\ Top.state = "running"
          /\ Top.tf.trapno = <<32, 0, 0, 0>>
          /\ stack' # stack )
        => ( /\ Len(stack') = Len(stack)
             /\ TopOf(stack').state = "returned"
             /\ TopOf(stack').eoi = 1
             /\ TopOf(stack').reads = 0
             /\ TopOf(stack').tf = Top.tf
             /\ UNCHANGED <<vectors, idt_pointer, loads>> ) ]_vars

C5_Witness ==
    /\ stack # <<>>
    /\ Top.tf0.trapno = <<32, 0, 0, 0>>
    /\ Top.state = "returned"
    /\ Top.eoi = 1
    /\ loads # <<>>

\* C6: given a trap record whose trap number is 39, handler() reads the
\* in-service byte exactly once, calls eoi() once if bit 7 of the byte is
\* set and not at all if it is clear, whatever the other seven bits, and
\* returns.
C6_SpuriousCheck ==
    \A f \in Frames :
        (f.tf0.trapno = <<39, 0, 0, 0>> /\ Finished(f)) =>
            /\ f.state = "returned"
            /\ f.reads = 1
            /\ f.isr \in 0..255
            /\ f.eoi = (IF f.isr >= 128 THEN 1 ELSE 0)
            /\ f.tf = f.tf0

C6_Witness ==
    /\ stack # <<>>
    /\ Top.tf0.trapno = <<39, 0, 0, 0>>
    /\ Top.state = "returned"
    /\ Top.isr = 127
    /\ Top.eoi = 0

\* C7: given a trap record whose trap number is any 64-bit value other than
\* 32 and 39, handler() makes no eoi() or read_isr() call and never returns:
\* once it has been entered nothing changes any more, so no later
\* acknowledge and no completion of a dispatch occurs and the caller never
\* resumes.
C7_FailStop ==
    /\ [](\A f \in Frames :
            (f.tf0.trapno \notin {<<32, 0, 0, 0>>, <<39, 0, 0, 0>>} /\ Finished(f)) =>
                f.state = "halted" /\ f.eoi = 0 /\ f.reads = 0)
    /\ [][ (\E f \in Frames : f.state = "halted") => UNCHANGED vars ]_vars

C7_Witness ==
    /\ stack # <<>>
    /\ Top.tf0.trapno = <<65535, 65535, 65535, 65535>>
    /\ Top.state = "halted"
    /\ loads # <<>>

\* C8: the table and the pointer are written only by init_idt(), before any
\* trap is dispatched: whenever a handler() invocation exists or init_idt()
\* is over, all 256 slots and the pointer's limit and base equal their
\* values at the moment load_idt was called.
C8_ReadOnlyAfterLoad ==
    (loads # <<>> \/ stack # <<>>) =>
        /\ Len(loads) = 1
        /\ vectors = loads[1].table
        /\ idt_pointer.limit = loads[1].limit
        /\ idt_pointer.addr = loads[1].addr

C8_Witness ==
    /\ pc = "idle"
    /\ stack # <<>>
    /\ Top.state = "returned"
    /\ Top.isr = 128
    /\ vectors = loads[1].table

\* C9: init_idt() is idempotent: after a second call the 256 slots and the
\* pointer equal what they were after the first, and every load_idt call was
\* given the same pointer over the same table.
C9_InitIdempotent ==
    pc = "init_idt_ret" =>
        \A i \in 1..Len(loads) :
            /\ loads[i].table = vectors
            /\ loads[i].limit = idt_pointer.limit
            /\ loads[i].addr = idt_pointer.addr

C9_Witness ==
    /\ pc = "init_idt_ret"
    /\ Len(loads) = 2
    /\ loads[1] = loads[2]
    /\ vectors[32].attr = 142

C11_KMainNeverReturns == pc \notin {"KMain_ret", "idle"}

\* C12: within init_idt(), load_idt is called exactly once, and only after
\* all 20 supported slots have been written and both the limit and the base
\* of the pointer have been set: no load happens while a statement of
\* init_idt() is still to run, and what is installed is the complete table
\* under the complete pointer.
C12_LoadOnceAfterBuild ==
    /\ Len(loads) <= 1
    /\ pc \in {"KMain", "init_idt"} => loads = <<>>
    /\ InitIdtDone => Len(loads) = 1
    /\ loads # <<>> =>
        /\ \A v \in {0, 1, 2, 3, 4, 5, 6, 7, 8, 10, 11, 12, 13, 14,
                     16, 17, 18, 19, 32, 39} :
              loads[1].table[v] = ExpectedGate(v)
        /\ loads[1].limit = 4095
        /\ loads[1].addr = link.table

C12_Witness ==
    /\ pc = "init_idt_ret"
    /\ Len(loads) = 1
    /\ loads[1].table[39].attr = 142
    /\ loads[1].table[0].low = 65520
    /\ loads[1].limit = 4095

====
